---------------------------- MODULE Spec2Model ----------------------------
(***************************************************************************)
(* A model of GitHubRepoAnalyzer (src/github_repo_summarizer.py): the      *)
(* dependency pass, the path resolver, the Terraform extractor, the        *)
(* structure pass and the summary.                                         *)
(*                                                                         *)
(* A Python string is a sequence of tokens: "/" (os.sep), "." and words    *)
(* (runs of other characters).  "sub/a.py" is <<"sub","/","a",".","py">>.  *)
(* Substring, prefix, replace, split and join work on these sequences.     *)
(* The file system is a set of regular files, each an absolute path given  *)
(* as its sequence of components; the directories are their ancestors.     *)
(* There are no symbolic links.                                            *)
(***************************************************************************)
EXTENDS Naturals, Sequences, FiniteSets, TLC

VARIABLES
    files,           \* the file system: the set of regular files
    content,         \* the content of each recognised file, or Unreadable
    local_path,      \* self.local_path
    dependencies,    \* self.dependencies: rel_path string -> token list
    file_structure,  \* self.file_structure: key path -> dict or list
    analyzed,        \* "True" or "False" as the last analyze_repo() returned, "none" before
    runs,            \* the analyze_repo() calls made so far: 0, 1, or 2 for two or more
    out,             \* the last summary, text report or JSON export produced
    call             \* the last _resolve_absolute_import call and its result

vars == <<files, content, local_path, dependencies, file_structure,
          analyzed, runs, out, call>>

---------------------------------------------------------------------------
(* Bounds                                                                  *)

\* At most this many regular files in the file system
MaxFiles == 3
\* At most this many syntactic items in the content of a file
MaxItems == 2

---------------------------------------------------------------------------
(* Strings                                                                 *)

SEP == "/"
DOT == "."

S1(w) == <<w>>
Str(w1, w2) == <<w1, DOT, w2>>            \* "w1.w2"

RECURSIVE Concat(_)
\* the concatenation of a sequence of strings
Concat(ss) == IF ss = <<>> THEN <<>> ELSE Head(ss) \o Concat(Tail(ss))

\* str.startswith
StartsWith(s, p) == Len(s) >= Len(p) /\ SubSeq(s, 1, Len(p)) = p
\* p in s
Contains(s, p) ==
    \E i \in 1..(Len(s) + 1) :
        i + Len(p) - 1 <= Len(s) /\ SubSeq(s, i, i + Len(p) - 1) = p

\* str.replace('.', os.sep)
ReplaceDots(s) == [i \in 1..Len(s) |-> IF s[i] = DOT THEN SEP ELSE s[i]]

\* str.lower(), on the words that have upper-case letters
LowerTok(t) == CASE t = "TF" -> "tf"
                 [] t = "PY" -> "py"
                 [] OTHER -> t
Lower(s) == [i \in 1..Len(s) |-> LowerTok(s[i])]

RECURSIVE SplitAcc(_, _, _)
SplitAcc(s, cur, acc) ==
    IF s = <<>> THEN Append(acc, cur)
    ELSE IF Head(s) = SEP THEN SplitAcc(Tail(s), <<>>, Append(acc, cur))
    ELSE SplitAcc(Tail(s), Append(cur, Head(s)), acc)
\* str.split('/'): the pieces between separators, empty ones included
Split(s) == SplitAcc(s, <<>>, <<>>)

RECURSIVE JoinSep(_)
\* '/'.join(comps)
JoinSep(comps) ==
    IF comps = <<>> THEN <<>>
    ELSE IF Len(comps) = 1 THEN comps[1]
    ELSE comps[1] \o <<SEP>> \o JoinSep(Tail(comps))

\* the non-empty pieces of a sequence of pieces
NonEmpty(comps) == SelectSeq(comps, LAMBDA c : c # <<>>)

---------------------------------------------------------------------------
(* posixpath                                                               *)

IsAbs(p) == Len(p) > 0 /\ p[1] = SEP

\* os.path.join(a, b)
Join(a, b) ==
    IF IsAbs(b) THEN b
    ELSE IF a = <<>> \/ a[Len(a)] = SEP THEN a \o b
    ELSE a \o <<SEP>> \o b

\* the number of leading slashes normpath keeps: two stay two, three or more
\* become one
InitialSlashes(p) ==
    IF ~IsAbs(p) THEN 0
    ELSE IF StartsWith(p, <<SEP, SEP>>) /\ ~StartsWith(p, <<SEP, SEP, SEP>>) THEN 2
    ELSE 1

DotDot == <<DOT, DOT>>

RECURSIVE NormComps(_, _, _)
\* normpath's loop over the components
NormComps(comps, new, slashes) ==
    IF comps = <<>> THEN new
    ELSE LET c == Head(comps) IN
         IF c = <<>> \/ c = <<DOT>> THEN NormComps(Tail(comps), new, slashes)
         ELSE IF \/ c # DotDot
                 \/ (slashes = 0 /\ new = <<>>)
                 \/ (new # <<>> /\ new[Len(new)] = DotDot)
              THEN NormComps(Tail(comps), Append(new, c), slashes)
         ELSE IF new # <<>>
              THEN NormComps(Tail(comps), SubSeq(new, 1, Len(new) - 1), slashes)
         ELSE NormComps(Tail(comps), new, slashes)

\* os.path.normpath(p)
NormPath(p) ==
    LET slashes == InitialSlashes(p)
        body == JoinSep(NormComps(Split(p), <<>>, slashes))
        lead == IF slashes = 2 THEN <<SEP, SEP>>
                ELSE IF slashes = 1 THEN <<SEP>> ELSE <<>>
        path == lead \o body
    IN IF path = <<>> THEN <<DOT>> ELSE path

RECURSIVE RStripSep(_)
RStripSep(s) == IF s # <<>> /\ s[Len(s)] = SEP
                THEN RStripSep(SubSeq(s, 1, Len(s) - 1)) ELSE s

\* the index of the last separator of p, 0 when it has none
LastSep(p) == IF \E i \in 1..Len(p) : p[i] = SEP
              THEN CHOOSE i \in 1..Len(p) :
                       p[i] = SEP /\ \A j \in (i + 1)..Len(p) : p[j] # SEP
              ELSE 0

\* os.path.dirname(p)
Dirname(p) ==
    LET head == SubSeq(p, 1, LastSep(p))
    IN IF head # <<>> /\ \E i \in 1..Len(head) : head[i] # SEP
       THEN RStripSep(head) ELSE head

\* os.path.splitext(name)[1], for a file name without separators: from the
\* last dot on, unless only dots come before it
SplitExt(name) ==
    IF \E i \in 1..Len(name) : name[i] = DOT
    THEN LET d == CHOOSE i \in 1..Len(name) :
                      name[i] = DOT /\ \A j \in (i + 1)..Len(name) : name[j] # DOT
         IN IF \E j \in 1..(d - 1) : name[j] # DOT
            THEN SubSeq(name, d, Len(name)) ELSE <<>>
    ELSE <<>>

---------------------------------------------------------------------------
(* The file system                                                         *)

\* the working directory of the process, as components
Cwd == << S1("w") >>

\* d is a proper ancestor of f
IsUnder(f, d) == Len(f) > Len(d) /\ SubSeq(f, 1, Len(d)) = d

\* the directories: the root, the working directory and every ancestor of a file
Dirs == UNION {{SubSeq(f, 1, n) : n \in 0..(Len(f) - 1)} : f \in files} \cup {<<>>, Cwd}
\* d \in Dirs
IsDirectory(d) == d = <<>> \/ d = Cwd \/ \E f \in files : IsUnder(f, d)

\* what a failed lookup yields: a path that names nothing
NoEnt == << <<"?">> >>

RECURSIVE Lookup(_, _)
\* the kernel's walk of the components `comps` from directory `cur`
Lookup(comps, cur) ==
    IF comps = <<>> THEN cur
    ELSE IF ~IsDirectory(cur) THEN NoEnt
    ELSE LET c == Head(comps) IN
         IF c = <<DOT>> THEN Lookup(Tail(comps), cur)
         ELSE IF c = DotDot
              THEN Lookup(Tail(comps),
                          IF cur = <<>> THEN cur ELSE SubSeq(cur, 1, Len(cur) - 1))
         ELSE Lookup(Tail(comps), Append(cur, c))

\* the file or directory the string p names, as components
Target(p) == Lookup(NonEmpty(Split(p)), IF IsAbs(p) THEN <<>> ELSE Cwd)

IsFile(p) == Target(p) \in files
\* os.path.exists(p)
Exists(p) == p # <<>> /\ LET t == Target(p) IN t \in files \/ IsDirectory(t)

\* os.path.abspath(p)
AbsPath(p) == NormPath(Join(<<SEP>> \o JoinSep(Cwd), p))

RECURSIVE CommonLen(_, _)
CommonLen(a, b) == IF a # <<>> /\ b # <<>> /\ Head(a) = Head(b)
                   THEN 1 + CommonLen(Tail(a), Tail(b)) ELSE 0

\* os.path.relpath(path, start)
RelPath(path, start) ==
    LET sl == NonEmpty(Split(AbsPath(start)))
        pl == NonEmpty(Split(AbsPath(path)))
        i == CommonLen(sl, pl)
        rel == [k \in 1..(Len(sl) - i) |-> DotDot] \o SubSeq(pl, i + 1, Len(pl))
    IN IF rel = <<>> THEN <<DOT>> ELSE JoinSep(rel)

---------------------------------------------------------------------------
(* The analyzer's tables                                                   *)

Ext(w) == <<DOT, w>>

\* self.ignored_dirs
ignored_dirs == << <<DOT, "git">>, <<"node_modules">>, <<"__pycache__">>,
                   <<"venv">>, <<DOT, "env">>, <<DOT, "venv">> >>

\* the keys of self.language_patterns, in insertion order
Languages == <<"python", "javascript", "java", "go", "terraform">>

\* language_patterns[lang]['files']
LangFiles(lang) ==
    CASE lang = "python" -> {Ext("py")}
      [] lang = "javascript" -> {Ext("js"), Ext("jsx"), Ext("ts"), Ext("tsx")}
      [] lang = "java" -> {Ext("java")}
      [] lang = "go" -> {Ext("go")}
      [] lang = "terraform" -> {Ext("tf"), Ext("tfvars")}

\* len(language_patterns[lang]['import_patterns'])
NumPatterns(lang) ==
    CASE lang = "python" -> 2
      [] lang = "javascript" -> 2
      [] lang = "java" -> 1
      [] lang = "go" -> 2
      [] lang = "terraform" -> 3

NoLanguage == "none"

\* _get_language_from_extension(filename)
GetLanguageFromExtension(filename) ==
    LET extension == Lower(SplitExt(filename))
        hits == {i \in 1..Len(Languages) : extension \in LangFiles(Languages[i])}
    IN IF hits = {} THEN NoLanguage
       ELSE Languages[CHOOSE i \in hits : \A j \in hits : i <= j]

---------------------------------------------------------------------------
(* The path resolver                                                       *)

\* the falsy result of _resolve_absolute_import
None == <<>>

\* possible_extensions
possible_extensions == <<Ext("py"), Ext("js"), Ext("tsx"), Ext("jsx"),
                         Ext("ts"), Ext("java"), Ext("go"), Ext("tf")>>

\* source_dir of _resolve_absolute_import
SourceDir(source_file) == Dirname(NormPath(Join(local_path, source_file)))

\* search_paths, with the base rooted at the repository tried first
SearchPathsRootFirst(source_file, import_name) ==
    LET relative_path == ReplaceDots(import_name)
    IN << Join(local_path, relative_path),
          Join(SourceDir(source_file), relative_path) >>

\* search_paths: the source file's directory, then the repository root
SearchPaths(source_file, import_name) ==
    LET relative_path == ReplaceDots(import_name)
    IN << Join(SourceDir(source_file), relative_path),
          Join(local_path, relative_path) >>

\* index_file for a package-style extension
IndexFile(ext) == IF ext = Ext("py") THEN <<"__init__", DOT, "py">>
                  ELSE <<"index", DOT, "js">>

Cand(b, e, kind, path) == [base |-> b, ext |-> e, kind |-> kind, path |-> path]

\* the paths one turn of the inner loop tests, the package index first
ExtCandidatesPackageFirst(base_path, b, e) ==
    LET ext == possible_extensions[e]
    IN (IF ext \in {Ext("py"), Ext("js")}
        THEN << Cand(b, e, "package", Join(base_path, IndexFile(ext))) >>
        ELSE <<>>)
       \o << Cand(b, e, "direct", base_path \o ext) >>

\* the paths one turn of the inner loop tests, in order: base_path + ext,
\* then for '.py' and '.js' the package index under base_path
ExtCandidates(base_path, b, e) ==
    LET ext == possible_extensions[e]
    IN << Cand(b, e, "direct", base_path \o ext) >>
       \o (IF ext \in {Ext("py"), Ext("js")}
           THEN << Cand(b, e, "package", Join(base_path, IndexFile(ext))) >>
           ELSE <<>>)

\* every path the two loops test, in the order they test them
Candidates(source_file, import_name) ==
    LET sp == SearchPaths(source_file, import_name)
    IN Concat([i \in 1..(Len(sp) * Len(possible_extensions)) |->
          LET b == ((i - 1) \div Len(possible_extensions)) + 1
              e == ((i - 1) % Len(possible_extensions)) + 1
          IN ExtCandidates(sp[b], b, e)])

\* the first tested path that exists, 0 when none does
FirstHit(cands) ==
    LET hits == {i \in 1..Len(cands) : Exists(cands[i].path)}
    IN IF hits = {} THEN 0 ELSE CHOOSE i \in hits : \A j \in hits : i <= j

\* "Terraform module resolution": a relative import_name as a path from the
\* source directory
TerraformFallback(source_file, import_name) ==
    IF StartsWith(import_name, <<DOT>>)
    THEN LET potential_path == NormPath(Join(SourceDir(source_file), import_name))
         IN IF Exists(potential_path) THEN potential_path ELSE None
    ELSE None

\* _resolve_absolute_import(source_file, import_name)
ResolveAbsoluteImport(source_file, import_name) ==
    LET cands == Candidates(source_file, import_name)
        h == FirstHit(cands)
    IN IF h # 0 THEN NormPath(cands[h].path)
       ELSE TerraformFallback(source_file, import_name)

---------------------------------------------------------------------------
(* The directory walks                                                     *)

\* the directory self.local_path names, as components
RepoRoot == Target(local_path)

\* the directories os.walk(self.local_path) yields when nothing is pruned
WalkDirs == IF IsDirectory(RepoRoot)
            THEN {d \in Dirs : d = RepoRoot \/ IsUnder(d, RepoRoot)}
            ELSE {}

\* the regular files directly in directory d
FilesIn(d) == {f \in files : Len(f) = Len(d) + 1 /\ IsUnder(f, d)}

RECURSIVE JoinAll(_, _)
JoinAll(base, comps) ==
    IF comps = <<>> THEN base ELSE JoinAll(Join(base, Head(comps)), Tail(comps))

\* the `root` string os.walk yields for directory d
RootOf(d) == JoinAll(local_path, SubSeq(d, Len(RepoRoot) + 1, Len(d)))

\* the file name of f
NameOf(f) == f[Len(f)]

\* os.path.relpath(os.path.join(root, file), self.local_path)
RelOf(f) == RelPath(Join(RootOf(SubSeq(f, 1, Len(f) - 1)), NameOf(f)), local_path)

\* any(ignored in root for ignored in self.ignored_dirs)
IgnoredInRoot(root) == \E i \in 1..Len(ignored_dirs) : Contains(root, ignored_dirs[i])

\* the files the loops of _analyze_dependencies and _count_file_types reach
SubstringWalkFiles ==
    UNION {FilesIn(d) : d \in {x \in WalkDirs : ~IgnoredInRoot(RootOf(x))}}

\* the files of a recognised language that _analyze_dependencies reaches
ScannedFiles ==
    {f \in SubstringWalkFiles : GetLanguageFromExtension(NameOf(f)) # NoLanguage}

---------------------------------------------------------------------------
(* File contents and the regular expressions                               *)
(*                                                                         *)
(* The content of a file is a sequence of syntactic items, [k, a, b]:      *)
(*   python      import a                 k = "import"                     *)
(*               from a import b          k = "from"                       *)
(*   javascript  require('a')             k = "require"                    *)
(*               import x from 'a'        k = "importfrom"                 *)
(*   java        import a;                k = "jimport"                    *)
(*   go          import "a"               k = "goimport"                   *)
(*               import ( "a"             k = "goimportgroup"              *)
(*   terraform   module "a" { source = "b" }     k = "module"              *)
(*               module "a" { count = 1 }        k = "module", b = ""      *)
(*               resource "a" "b" {       k = "resource"                   *)
(*               data "a" "b" {           k = "data"                       *)
(*               x = var.a                k = "var"                        *)
(*               terraform { source = "a" }      k = "tfblock"             *)
(* re.findall(pattern, content) is the matches of the pattern in each      *)
(* item, in item order.                                                    *)

Item(k, a, b) == [k |-> k, a |-> a, b |-> b]

\* the captures of import_patterns[i] of `lang` in one item
ItemMatches(lang, i, it) ==
    CASE lang = "python" /\ i = 1 /\ it.k = "import" -> <<it.a>>
      [] lang = "python" /\ i = 1 /\ it.k = "from" -> <<it.a, it.b>>
      [] lang = "python" /\ i = 2 /\ it.k = "from" -> <<it.a>>
      [] lang = "javascript" /\ i = 1 /\ it.k = "require" -> <<it.a>>
      [] lang = "javascript" /\ i = 2 /\ it.k = "importfrom" -> <<it.a>>
      [] lang = "java" /\ i = 1 /\ it.k = "jimport" -> <<it.a>>
      [] lang = "go" /\ i = 1 /\ it.k = "goimportgroup" -> <<it.a>>
      [] lang = "go" /\ i = 2 /\ it.k = "goimport" -> <<it.a>>
      [] lang = "terraform" /\ i = 1 /\ it.k = "module" /\ it.b # <<>> -> <<it.b>>
      [] lang = "terraform" /\ i = 1 /\ it.k = "tfblock" -> <<it.a>>
      [] lang = "terraform" /\ i = 2 /\ it.k = "module" -> <<it.a>>
      [] lang = "terraform" /\ i = 3 /\ it.k = "tfblock" -> <<it.a>>
      [] OTHER -> <<>>

\* re.findall(import_patterns[i], content)
FindAll(lang, i, items) ==
    Concat([n \in 1..Len(items) |-> ItemMatches(lang, i, items[n])])

\* the items of kind k: re.findall of the module, resource, data and var
\* expressions of _analyze_terraform_dependencies
BlocksOf(k, items) == SelectSeq(items, LAMBDA it : it.k = k)

---------------------------------------------------------------------------
(* Dependency tokens and the dependency map                                *)

COLON == ":"
ModuleToken(name, path) == <<"module", COLON>> \o name \o <<COLON>> \o path
ResourceToken(type, name) == <<"resource", COLON>> \o type \o <<COLON>> \o name
DataToken(type, name) == <<"data", COLON>> \o type \o <<COLON>> \o name
VarToken(name) == <<"var", COLON>> \o name

\* an empty dict
EmptyDict == [k \in {} |-> <<>>]

\* d[key] = value
DictSet(d, key, value) ==
    [k \in DOMAIN d \cup {key} |-> IF k = key THEN value ELSE d[k]]

\* self.dependencies[key].append(token), for each token in turn, on a
\* defaultdict(list): the key comes to exist with the first append
AppendAll(d, key, tokens) ==
    IF tokens = <<>> THEN d
    ELSE DictSet(d, key, (IF key \in DOMAIN d THEN d[key] ELSE <<>>) \o tokens)

\* the resolved paths of a list of raw imports, the unresolved ones dropped
ResolvedOf(rel_path, raw) ==
    SelectSeq([n \in 1..Len(raw) |-> ResolveAbsoluteImport(rel_path, raw[n])],
              LAMBDA r : r # None)

\* the loop over import_patterns: for each pattern, for each match, the
\* resolved path if any
GenericTokens(rel_path, lang, items) ==
    Concat([i \in 1..NumPatterns(lang) |->
                ResolvedOf(rel_path, FindAll(lang, i, items))])

\* the tokens of the module blocks of _analyze_terraform_dependencies
ModuleTokens(rel_path, items) ==
    LET blocks == BlocksOf("module", items)
    IN Concat([n \in 1..Len(blocks) |->
          IF blocks[n].b = <<>> THEN <<>>
          ELSE LET resolved_module_path ==
                       ResolveAbsoluteImport(rel_path, blocks[n].b)
               IN IF resolved_module_path # None
                  THEN << ModuleToken(blocks[n].a, resolved_module_path) >>
                  ELSE <<>>])

ResourceTokens(items) ==
    LET blocks == BlocksOf("resource", items)
    IN [n \in 1..Len(blocks) |-> ResourceToken(blocks[n].a, blocks[n].b)]

DataTokens(items) ==
    LET blocks == BlocksOf("data", items)
    IN [n \in 1..Len(blocks) |-> DataToken(blocks[n].a, blocks[n].b)]

VarTokens(items) ==
    LET refs == BlocksOf("var", items)
    IN [n \in 1..Len(refs) |-> VarToken(refs[n].a)]

\* _analyze_terraform_dependencies with the variable references recorded
\* before the resource and data blocks
TerraformTokensVarsFirst(rel_path, items) ==
    ModuleTokens(rel_path, items) \o VarTokens(items)
        \o ResourceTokens(items) \o DataTokens(items)

\* _analyze_terraform_dependencies recording resource, data and var tokens
\* only when a module was recorded
TerraformTokensOnlyWithModule(rel_path, items) ==
    IF ModuleTokens(rel_path, items) = <<>> THEN <<>>
    ELSE ModuleTokens(rel_path, items) \o ResourceTokens(items)
            \o DataTokens(items) \o VarTokens(items)

\* _analyze_terraform_dependencies(file_path, rel_path, content): what it
\* appends to self.dependencies[rel_path]
TerraformTokens(rel_path, items) ==
    ModuleTokens(rel_path, items) \o ResourceTokens(items)
        \o DataTokens(items) \o VarTokens(items)

\* the content of a file that cannot be read or decoded
Unreadable == [readable |-> FALSE, items |-> <<>>]
Readable(items) == [readable |-> TRUE, items |-> items]

\* the body of the loop over the files of _analyze_dependencies for a file
\* of a recognised language: the tokens it appends to dependencies[rel_path]
FileTokens(f) ==
    LET language == GetLanguageFromExtension(NameOf(f))
        rel_path == RelOf(f)
    IN IF ~content[f].readable THEN <<>>
       ELSE GenericTokens(rel_path, language, content[f].items)
            \o (IF language = "terraform"
                THEN TerraformTokens(rel_path, content[f].items)
                ELSE <<>>)

RECURSIVE SeqOfSet(_)
\* the elements of a finite set, in some order
SeqOfSet(S) == IF S = {} THEN <<>>
               ELSE LET x == CHOOSE y \in S : TRUE
                    IN <<x>> \o SeqOfSet(S \ {x})

RECURSIVE AnalyzeFilesUntilError(_, _)
\* the loop over the files leaving at the first file that cannot be read
AnalyzeFilesUntilError(fs, deps) ==
    IF fs = <<>> \/ ~content[Head(fs)].readable THEN deps
    ELSE AnalyzeFilesUntilError(Tail(fs),
             AppendAll(deps, RelOf(Head(fs)), FileTokens(Head(fs))))

RECURSIVE AnalyzeFiles(_, _)
AnalyzeFiles(fs, deps) ==
    IF fs = <<>> THEN deps
    ELSE AnalyzeFiles(Tail(fs), AppendAll(deps, RelOf(Head(fs)), FileTokens(Head(fs))))

\* _analyze_dependencies without its first statement, which replaces
\* self.dependencies by an empty map
AnalyzeDependenciesOntoOld == AnalyzeFiles(SeqOfSet(ScannedFiles), dependencies)

\* _analyze_dependencies over every directory, dot-prefixed ones included,
\* whose path has no ignored name as a substring: the new self.dependencies
AnalyzeDependencies == AnalyzeFiles(SeqOfSet(ScannedFiles), EmptyDict)

---------------------------------------------------------------------------
(* The structure pass                                                      *)
(*                                                                         *)
(* A nested dict is a function from key paths to values: a key path maps   *)
(* to DictV when the value at it is a dict, and to ListV(l) when it is the *)
(* list l.                                                                 *)

DictV == [dict |-> TRUE, list |-> <<>>]
ListV(l) == [dict |-> FALSE, list |-> l]
DependenciesKey == <<"dependencies">>

IsPrefix(p, q) == Len(p) <= Len(q) /\ SubSeq(q, 1, Len(p)) = p

\* set_nested_dict(d, path, key, value), value being {} when deps is empty
\* and {"dependencies": deps} otherwise
SetNestedDict(d, path, key, deps) ==
    LET node == Append(path, key)
        made == {SubSeq(path, 1, n) : n \in 1..Len(path)}
        kept == {q \in DOMAIN d : ~IsPrefix(node, q)}
        leaf == IF deps = <<>> THEN {} ELSE {Append(node, DependenciesKey)}
    IN [q \in kept \cup made \cup {node} \cup leaf |->
            IF q = node THEN DictV
            ELSE IF q \in leaf THEN ListV(deps)
            ELSE IF q \in kept THEN d[q]
            ELSE DictV]

\* dirs[:] = [d for d in dirs if d not in self.ignored_dirs and not
\* d.startswith('.')]: the directory name d is kept
KeptDir(name) ==
    /\ \A i \in 1..Len(ignored_dirs) : name # ignored_dirs[i]
    /\ ~StartsWith(name, <<DOT>>)

\* the directories the pruned os.walk of _build_file_structure yields
PrunedWalkDirs ==
    {d \in WalkDirs : \A n \in (Len(RepoRoot) + 1)..Len(d) : KeptDir(d[n])}

StructureFiles == UNION {FilesIn(d) : d \in PrunedWalkDirs}

\* path_parts for the directory d
PathParts(d) ==
    LET rel_path == RelPath(RootOf(d), local_path)
    IN IF rel_path = <<DOT>> THEN <<>> ELSE Split(rel_path)

\* file_deps = self.dependencies.get(rel_file_path, [])
DepsGet(deps, rel_file_path) ==
    IF rel_file_path \in DOMAIN deps THEN deps[rel_file_path] ELSE <<>>

RECURSIVE BuildFiles(_, _, _)
BuildFiles(fs, deps, structure) ==
    IF fs = <<>> THEN structure
    ELSE LET f == Head(fs)
         IN BuildFiles(Tail(fs), deps,
                SetNestedDict(structure, PathParts(SubSeq(f, 1, Len(f) - 1)),
                              NameOf(f), DepsGet(deps, RelOf(f))))

\* _build_file_structure: the new self.file_structure, given
\* self.dependencies
BuildFileStructure(deps) == BuildFiles(SeqOfSet(StructureFiles), deps, EmptyDict)

---------------------------------------------------------------------------
(* The summary                                                             *)

\* the keys of the dict at key path p
ChildrenOf(t, p) == {q \in DOMAIN t : Len(q) = Len(p) + 1 /\ IsPrefix(p, q)}

\* the test of _count_files with the key "dependencies" left out, as the
\* listing of the report has it
AnyDictChildButDependencies(t, q) ==
    \E c \in ChildrenOf(t, q) : t[c].dict /\ c[Len(c)] # DependenciesKey

\* any(k for k in value.keys() if isinstance(value[k], dict)), for the value
\* at key path q: some key of it is a non-empty string with a dict value
AnyDictChild(t, q) == \E c \in ChildrenOf(t, q) : t[c].dict /\ c[Len(c)] # <<>>

RECURSIVE CountFilesIn(_, _)
\* the loop of _count_files over the items at the key paths S
CountFilesIn(t, S) ==
    IF S = {} THEN 0
    ELSE LET q == CHOOSE y \in S : TRUE
         IN (IF t[q].dict /\ ~AnyDictChild(t, q) THEN 1
             ELSE CountFilesIn(t, ChildrenOf(t, q)))
            + CountFilesIn(t, S \ {q})

\* _count_files(structure)
CountFiles(t) == CountFilesIn(t, ChildrenOf(t, <<>>))

RECURSIVE CountDirectoriesIn(_, _)
\* the loop of _count_directories over the items at the key paths S
CountDirectoriesIn(t, S) ==
    IF S = {} THEN 0
    ELSE LET q == CHOOSE y \in S : TRUE
         IN (IF t[q].dict /\ AnyDictChild(t, q)
             THEN 1 + CountDirectoriesIn(t, ChildrenOf(t, q)) ELSE 0)
            + CountDirectoriesIn(t, S \ {q})

\* _count_directories(structure)
CountDirectories(t) == CountDirectoriesIn(t, ChildrenOf(t, <<>>))

\* _count_file_types() without .lower(): the extension as it is written
CountFileTypesCaseKept ==
    LET exts == {SplitExt(NameOf(f)) : f \in SubstringWalkFiles} \ {<<>>}
    IN [e \in exts |->
           Cardinality({f \in SubstringWalkFiles : SplitExt(NameOf(f)) = e})]

\* _count_file_types(): the files of each lower-cased extension in the
\* directories whose path has no ignored name as a substring
CountFileTypes ==
    LET exts == {Lower(SplitExt(NameOf(f))) : f \in SubstringWalkFiles} \ {<<>>}
    IN [e \in exts |->
           Cardinality({f \in SubstringWalkFiles : Lower(SplitExt(NameOf(f))) = e})]

\* generate_summary()
Summary == [file_count |-> CountFiles(file_structure),
directory_count |-> CountDirectories(file_structure),
            file_types |-> CountFileTypes,
            structure |-> file_structure]

---------------------------------------------------------------------------
(* The text report                                                         *)

\* build_structure_string(self.file_structure, depth=4, max_depth=6)
ListingDepth == 4
ListingMaxDepth == 6
\* sorted(files_with_deps, ...)[:5]
TopFilesShown == 5
\* if len(variables) <= 10
VariablesShown == 10

\* the names of the model in the order of Python's string comparison, which
\* sorted() uses
KeyOrder ==
    << <<DOT, "git">>, <<DOT, "idea">>, Str("__init__", "py"), S1("a"),
       Str("a", "py"), S1("b"), Str("bad", "tf"), S1("c"), S1("d"),
       S1("dependencies"), Str("g", "py"), Str("h", "py"), S1("m"),
       Str("m", "js"), Str("m", "py"), Str("main", "tf"), S1("modules"),
       <<"my", "venv">>, Str("prod", "tfvars"), S1("r"), Str("readme", "md"),
       S1("sub"), Str("up", "TF"), Str("v", "py"), Str("v", "tf"),
       Str("vpc", "tf"), S1("w"), S1("x") >>

\* sorted(structure.items()) for the dict at key path p: its keys in order
SortedKeys(t, p) ==
    SelectSeq(KeyOrder, LAMBDA k : Append(p, k) \in ChildrenOf(t, p))

\* structure.items() for the dict at key path p, in the order of the dict,
\* which is the order the walk inserted the keys in
ItemKeys(t, p) == SeqOfSet({c[Len(c)] : c \in ChildrenOf(t, p)})

\* "dependencies" in value, for the value at key path q
HasDependenciesKey(t, q) == Append(q, DependenciesKey) \in DOMAIN t

\* len(value["dependencies"]) if "dependencies" in value else 0: the length
\* of the list, or the number of keys when the value at that key is a dict
DepCount(t, q) ==
    LET d == Append(q, DependenciesKey)
    IN IF d \notin DOMAIN t THEN 0
       ELSE IF t[d].dict THEN Cardinality(ChildrenOf(t, d))
       ELSE Len(t[d].list)

\* any(isinstance(value[k], dict) for k in value.keys() if k != "dependencies")
OtherDictChild(t, q) ==
    \E c \in ChildrenOf(t, q) : t[c].dict /\ c[Len(c)] # DependenciesKey

\* any(isinstance(value[k], dict) for k in value.keys())
SomeDictChild(t, q) == \E c \in ChildrenOf(t, q) : t[c].dict

\* a line of the listing: indent * depth, then "F key", "F key [n deps]",
\* "D key/" or "..."; node is the key path of the RepoTree node it prints
Line(depth, kind, node, deps) ==
    [depth |-> depth, kind |-> kind, node |-> node, deps |-> deps]

RECURSIVE BuildStructureString(_, _, _)
\* build_structure_string(structure, depth, max_depth=6), structure being the
\* dict at key path p
BuildStructureString(t, p, depth) ==
    IF depth > ListingMaxDepth THEN << Line(depth, "...", p, 0) >>
    ELSE LET keys == SortedKeys(t, p)
         IN Concat([n \in 1..Len(keys) |->
                LET q == Append(p, keys[n])
                IN IF t[q].dict /\ ~OtherDictChild(t, q)
                   THEN << Line(depth, "F", q, DepCount(t, q)) >>
                   ELSE << Line(depth, "D", q, 0) >>
                        \o (IF depth < ListingMaxDepth
                            THEN BuildStructureString(t, q, depth + 1)
                            ELSE <<>>)])

RECURSIVE CollectNodes(_, _)
\* the traversal of collect_deps and collect_terraform_deps below the dict
\* at key path p: the key paths of the values that have a "dependencies"
\* key, which are not descended into
CollectNodes(t, p) ==
    LET keys == ItemKeys(t, p)
    IN Concat([n \in 1..Len(keys) |->
           LET q == Append(p, keys[n])
           IN IF t[q].dict /\ HasDependenciesKey(t, q) THEN << q >>
              ELSE IF t[q].dict /\ SomeDictChild(t, q) THEN CollectNodes(t, q)
              ELSE <<>>])

\* current_path of the node at key path q
CurrentPath(q) == JoinAll(<<>>, q)

\* files_with_deps after collect_deps(self.file_structure)
CollectDeps(t) ==
    LET nodes == CollectNodes(t, <<>>)
    IN [n \in 1..Len(nodes) |-> << CurrentPath(nodes[n]), DepCount(t, nodes[n]) >>]

\* the largest count in a sequence of <<name, count>> pairs
MaxCount(pairs) ==
    IF pairs = <<>> THEN 0
    ELSE CHOOSE m \in {pairs[n][2] : n \in 1..Len(pairs)} :
             \A n \in 1..Len(pairs) : pairs[n][2] <= m

\* sorted(pairs, key=lambda x: x[1], reverse=True): by count, largest first,
\* equal counts in their original order
SortedByCount(pairs) ==
    LET m == MaxCount(pairs)
    IN Concat([i \in 1..(m + 1) |->
           SelectSeq(pairs, LAMBDA x : x[2] = m + 1 - i)])

\* top_files
TopFiles(t) ==
    LET sorted == SortedByCount(CollectDeps(t))
    IN SubSeq(sorted, 1, IF Len(sorted) < TopFilesShown THEN Len(sorted)
                         ELSE TopFilesShown)

\* sorted(summary['file_types'].items(), key=lambda x: x[1], reverse=True)
SortedFileTypes(file_types) ==
    LET exts == SeqOfSet(DOMAIN file_types)
    IN SortedByCount([n \in 1..Len(exts) |-> << exts[n], file_types[exts[n]] >>])

\* for dep in value["dependencies"], for the value at key path q: the
\* tokens of the list, or the keys when the value at that key is a dict
DepsOf(t, q) ==
    LET d == Append(q, DependenciesKey)
    IN IF t[d].dict THEN ItemKeys(t, d) ELSE t[d].list

\* the index of the first ":" of dep after position i, 0 when there is none
NextColon(dep, i) ==
    IF \E j \in (i + 1)..Len(dep) : dep[j] = COLON
    THEN CHOOSE j \in (i + 1)..Len(dep) :
             dep[j] = COLON /\ \A k \in (i + 1)..(j - 1) : dep[k] # COLON
    ELSE 0

\* dep.split(':', 2)[1] and dep.split(':', 2)[2] of a tagged token
SplitSecond(dep) == SubSeq(dep, 3, NextColon(dep, 2) - 1)
SplitThird(dep) == SubSeq(dep, NextColon(dep, 2) + 1, Len(dep))

\* dep.startswith(tag + ':')
TaggedAs(dep, tag) == StartsWith(dep, <<tag, COLON>>)

\* the counts of a dict of lists built by appending one name per token
CountByType(deps) ==
    [ty \in {SplitSecond(deps[n]) : n \in 1..Len(deps)} |->
        Len(SelectSeq(deps, LAMBDA d : SplitSecond(d) = ty))]

\* _get_terraform_summary(): modules (name -> source of the last token of
\* that name), resources and data sources (type -> number of tokens), the
\* variables, and whether the variables are listed
GetTerraformSummary(t) ==
    LET nodes == CollectNodes(t, <<>>)
        deps == Concat([n \in 1..Len(nodes) |-> DepsOf(t, nodes[n])])
        mods == SelectSeq(deps, LAMBDA d : TaggedAs(d, "module"))
        res == SelectSeq(deps, LAMBDA d : ~TaggedAs(d, "module") /\ TaggedAs(d, "resource"))
        dat == SelectSeq(deps, LAMBDA d : ~TaggedAs(d, "module")
                                        /\ ~TaggedAs(d, "resource") /\ TaggedAs(d, "data"))
        refs == SelectSeq(deps, LAMBDA d : ~TaggedAs(d, "module")
                                         /\ ~TaggedAs(d, "resource")
                                         /\ ~TaggedAs(d, "data") /\ TaggedAs(d, "var"))
        variables == {SubSeq(refs[n], 3, Len(refs[n])) : n \in 1..Len(refs)}
    IN [modules |->
            [name \in {SplitSecond(mods[n]) : n \in 1..Len(mods)} |->
                LET last == CHOOSE n \in 1..Len(mods) :
                                /\ SplitSecond(mods[n]) = name
                                /\ \A k \in (n + 1)..Len(mods) : SplitSecond(mods[k]) # name
                IN SplitThird(mods[last])],
        resources |-> CountByType(res),
        data_sources |-> CountByType(dat),
        variables |-> variables,
        listed |-> Cardinality(variables) <= VariablesShown]

\* the report without the Terraform section
NoTerraformSummary ==
    [modules |-> EmptyDict, resources |-> EmptyDict, data_sources |-> EmptyDict,
     variables |-> {}, listed |-> FALSE]

---------------------------------------------------------------------------
(* The bounded inputs                                                      *)

InRepo(rest) == <<S1("w"), S1("r")>> \o rest

\* the regular files a file system is drawn from
Universe ==
    { InRepo(<< Str("main", "tf") >>),
      InRepo(<< S1("sub"), Str("a", "py") >>),
      InRepo(<< Str("m", "py") >>),
      InRepo(<< S1("sub"), Str("m", "py") >>),
      InRepo(<< S1("sub"), S1("m"), Str("__init__", "py") >>),
      InRepo(<< S1("sub"), Str("m", "js") >>),
      InRepo(<< S1("modules"), Str("v", "tf") >>),
      InRepo(<< <<DOT, "idea">>, Str("h", "py") >>),
      InRepo(<< <<"my", "venv">>, Str("v", "py") >>),
      InRepo(<< <<DOT, "git">>, Str("g", "py") >>),
      << Str("m", "py") >>,
      << S1("w"), S1("x") >> }

FileSystems == {S \in SUBSET Universe : Cardinality(S) <= MaxFiles}

\* the values of local_path: absolute, and relative to the working directory
LocalPaths == { <<SEP, "w", SEP, "r">>, <<"r">> }

\* the raw imports the resolver is called with
ImportNames ==
    { <<"m">>, <<DOT, "m">>, <<SEP, "m">>, <<"sub", DOT, "m">>,
      <<DOT, SEP, "modules">>, <<DOT, DOT, SEP, "x">>, <<"zz">> }

NoCall == [made |-> FALSE, source_file |-> <<>>, import_name |-> <<>>,
           result |-> <<>>]

\* the content of each file of the universe
ContentOf(f) ==
    CASE f = InRepo(<< Str("main", "tf") >>) ->
            << Item("module", <<"vpc">>, <<DOT, SEP, "modules">>),
               Item("resource", <<"aws_vpc">>, <<"main">>),
               Item("var", <<"cidr_block">>, <<>>) >>
      [] f = InRepo(<< S1("sub"), Str("a", "py") >>) ->
            << Item("import", <<"m">>, <<>>) >>
      [] f = InRepo(<< S1("sub"), Str("m", "py") >>) ->
            << Item("import", <<"zz">>, <<>>) >>
      [] f = InRepo(<< <<DOT, "idea">>, Str("h", "py") >>) ->
            << Item("import", <<"m">>, <<>>) >>
      [] f = InRepo(<< <<"my", "venv">>, Str("v", "py") >>) ->
            << Item("import", <<"m">>, <<>>) >>
      [] f = InRepo(<< <<DOT, "git">>, Str("g", "py") >>) ->
            << Item("import", <<"m">>, <<>>) >>
      [] f = InRepo(<< Str("up", "TF") >>) ->
            << Item("data", <<"aws_ami">>, <<"ubuntu">>) >>
      [] f = InRepo(<< S1("dependencies"), Str("a", "py") >>) ->
            << Item("import", <<"a">>, <<>>) >>
      [] f = InRepo(<< S1("a"), S1("b"), S1("c"), Str("h", "py") >>) ->
            << Item("import", <<"h">>, <<>>) >>
      [] OTHER -> <<>>

NoOutput == [kind |-> "none", summary |-> [file_count |-> 0, directory_count |-> 0,
                 file_types |-> EmptyDict, structure |-> EmptyDict],
             types |-> <<>>, listing |-> <<>>, top_files |-> <<>>,
             terraform |-> FALSE, tf |-> NoTerraformSummary]

\* GitHubRepoAnalyzer(local_path=...), __init__, over a file system drawn
\* from the universe
Init ==
    /\ files \in FileSystems
    /\ content = [f \in files |-> Readable(ContentOf(f))]
    /\ local_path \in LocalPaths
    /\ dependencies = EmptyDict
    /\ file_structure = EmptyDict
    /\ analyzed = "none"
    /\ runs = 0
    /\ out = NoOutput
    /\ call = NoCall

\* the regular files the file systems of the summary and the report are
\* drawn from: Terraform files by both extensions and in upper case, a file
\* of no language, a file and a directory named "dependencies", a file four
\* levels down, and a file that cannot be read
TreeUniverse ==
    { InRepo(<< Str("main", "tf") >>),
      InRepo(<< S1("modules"), Str("v", "tf") >>),
      InRepo(<< Str("prod", "tfvars") >>),
      InRepo(<< Str("up", "TF") >>),
      InRepo(<< Str("readme", "md") >>),
      InRepo(<< S1("d"), S1("dependencies") >>),
      InRepo(<< S1("dependencies"), Str("a", "py") >>),
      InRepo(<< S1("a"), S1("b"), S1("c"), Str("h", "py") >>),
      InRepo(<< Str("bad", "tf") >>) }

TreeFileSystems == {S \in SUBSET TreeUniverse : Cardinality(S) <= MaxFiles}

\* the files open() or read() fails on
UnreadableFiles == { InRepo(<< Str("bad", "tf") >>) }

\* the regular files the file systems of repeated runs are drawn from
RerunUniverse ==
    { InRepo(<< Str("main", "tf") >>),
      InRepo(<< S1("modules"), Str("v", "tf") >>),
      InRepo(<< S1("dependencies"), Str("a", "py") >>),
      InRepo(<< S1("a"), S1("b"), S1("c"), Str("h", "py") >>),
      InRepo(<< Str("bad", "tf") >>) }

RerunFileSystems == {S \in SUBSET RerunUniverse : Cardinality(S) <= MaxFiles}

\* __init__ over a file system drawn from the universe of repeated runs
InitRerun ==
    /\ files \in RerunFileSystems
    /\ content = [f \in files |-> IF f \in UnreadableFiles THEN Unreadable
                                  ELSE Readable(ContentOf(f))]
    /\ local_path \in LocalPaths
    /\ dependencies = EmptyDict
    /\ file_structure = EmptyDict
    /\ analyzed = "none"
    /\ runs = 0
    /\ out = NoOutput
    /\ call = NoCall

\* the values of local_path the driver's analyzer is constructed with: the
\* default None as well
DriverPaths == LocalPaths \cup { <<>> }

\* analyzer = GitHubRepoAnalyzer(repo_url=..., local_path=...)
InitMain ==
    /\ files \in TreeFileSystems
    /\ content = [f \in files |-> IF f \in UnreadableFiles THEN Unreadable
                                  ELSE Readable(ContentOf(f))]
    /\ local_path \in DriverPaths
    /\ dependencies = EmptyDict
    /\ file_structure = EmptyDict
    /\ analyzed = "none"
    /\ runs = 0
    /\ out = NoOutput
    /\ call = NoCall

\* the bounded sequences over S
BoundedSeq(S, n) == UNION {[1..k -> S] : k \in 0..n}

\* the items the content of the analysed file is drawn from
TerraformItems ==
    { Item("module", <<"vpc">>, <<DOT, SEP, "modules">>),
      Item("module", <<"net">>, <<DOT, SEP, "nomod">>),
      Item("module", <<"bare">>, <<>>),
      Item("resource", <<"aws_vpc">>, <<"main">>),
      Item("data", <<"aws_ami">>, <<"ubuntu">>),
      Item("var", <<"cidr_block">>, <<>>),
      Item("tfblock", <<DOT, SEP, "modules">>, <<>>) }
\* the items drawn from in the tree where no module source resolves
LoneTerraformItems ==
    { Item("module", <<"vpc">>, <<DOT, SEP, "modules">>),
      Item("resource", <<"aws_vpc">>, <<"main">>),
      Item("var", <<"cidr_block">>, <<>>),
      Item("tfblock", <<DOT, SEP, "modules">>, <<>>) }
PythonItems ==
    { Item("import", <<"m">>, <<>>),
      Item("import", <<"zz">>, <<>>),
      Item("from", <<"m">>, <<"zz">>) }

\* the trees the extraction is run over, each with the file whose content
\* varies
ExtractCases ==
    { [subject |-> InRepo(<< Str("main", "tf") >>), items |-> TerraformItems,
       files |-> {InRepo(<< Str("main", "tf") >>),
                  InRepo(<< Str("vpc", "tf") >>),
                  InRepo(<< S1("modules"), Str("v", "tf") >>)}],
      [subject |-> InRepo(<< Str("main", "tf") >>), items |-> LoneTerraformItems,
       files |-> {InRepo(<< Str("main", "tf") >>)}],
      [subject |-> InRepo(<< S1("sub"), Str("a", "py") >>), items |-> PythonItems,
       files |-> {InRepo(<< S1("sub"), Str("a", "py") >>),
                  InRepo(<< Str("m", "py") >>)}] }

\* __init__ over a fixed tree with one file of bounded, arbitrary content
InitExtract ==
    /\ \E c \in ExtractCases :
          /\ files = c.files
          /\ \E sc \in {Readable(items) : items \in BoundedSeq(c.items, MaxItems)}
                         \cup {Unreadable} :
                content = [f \in c.files |->
                              IF f = c.subject THEN sc ELSE Readable(<<>>)]
    /\ local_path \in LocalPaths
    /\ dependencies = EmptyDict
    /\ file_structure = EmptyDict
    /\ analyzed = "none"
    /\ runs = 0
    /\ out = NoOutput
    /\ call = NoCall

\* analyze_repo() without the test of self.local_path
AnalyzeRepoUnchecked ==
    /\ LET deps == AnalyzeDependencies
       IN /\ dependencies' = deps
          /\ file_structure' = BuildFileStructure(deps)
          /\ analyzed' = "True"
    /\ runs' = IF runs < 2 THEN runs + 1 ELSE runs
    /\ UNCHANGED <<files, content, local_path, out, call>>

\* analyze_repo()
AnalyzeRepo ==
    /\ IF local_path = <<>> \/ ~Exists(local_path)
       THEN /\ analyzed' = "False"
            /\ UNCHANGED <<dependencies, file_structure>>
       ELSE LET deps == AnalyzeDependencies
            IN /\ dependencies' = deps
               /\ file_structure' = BuildFileStructure(deps)
               /\ analyzed' = "True"
    /\ runs' = IF runs < 2 THEN runs + 1 ELSE runs
    /\ UNCHANGED <<files, content, local_path, out, call>>

\* generate_summary()
GenerateSummary ==
    /\ out' = [NoOutput EXCEPT !.kind = "summary", !.summary = Summary]
    /\ UNCHANGED <<files, content, local_path, dependencies, file_structure,
                   analyzed, runs, call>>

\* print_summary(): the totals, the file types by count, the tree listing,
\* the most connected files and, if '.tf' is a file type, the Terraform
\* section of the report
PrintSummary ==
    /\ LET summary == Summary
           terraform == Ext("tf") \in DOMAIN summary.file_types
       IN out' = [kind |-> "report", summary |-> summary,
                  types |-> SortedFileTypes(summary.file_types),
                  listing |-> BuildStructureString(file_structure, <<>>, ListingDepth),
                  top_files |-> TopFiles(file_structure),
                  terraform |-> terraform,
                  tf |-> IF terraform THEN GetTerraformSummary(file_structure)
                         ELSE NoTerraformSummary]
    /\ UNCHANGED <<files, content, local_path, dependencies, file_structure,
                   analyzed, runs, call>>

\* export_summary(output_file)
ExportSummary ==
    /\ out' = [NoOutput EXCEPT !.kind = "json", !.summary = Summary]
    /\ UNCHANGED <<files, content, local_path, dependencies, file_structure,
                   analyzed, runs, call>>

Next == AnalyzeRepo \/ GenerateSummary \/ PrintSummary \/ ExportSummary

Spec == Init /\ [][Next]_vars

SpecRerun == InitRerun /\ [][Next]_vars

\* the driver: if analyzer.analyze_repo(): analyzer.print_summary();
\* analyzer.export_summary(...)
MainAnalyze == runs = 0 /\ AnalyzeRepo
MainPrint == analyzed = "True" /\ out.kind = "none" /\ PrintSummary
MainExport == analyzed = "True" /\ out.kind = "report" /\ ExportSummary

NextMain == MainAnalyze \/ MainPrint \/ MainExport

SpecMain == InitMain /\ [][NextMain]_vars

\* the driver over the trees of the extraction
SpecExtract == InitExtract /\ [][NextMain]_vars

\* one call self._resolve_absolute_import(source_file, import_name)
ResolveCall(source_file, import_name) ==
    /\ ~call.made
    /\ call' = [made |-> TRUE, source_file |-> source_file,
                import_name |-> import_name,
                result |-> ResolveAbsoluteImport(source_file, import_name)]
    /\ UNCHANGED <<files, content, local_path, dependencies, file_structure,
                   analyzed, runs, out>>

NextResolver ==
    \E f \in ScannedFiles, import_name \in ImportNames :
        ResolveCall(RelOf(f), import_name)

SpecResolver == Init /\ [][NextResolver]_vars

---------------------------------------------------------------------------
(* The resolver's claims, under SpecResolver                               *)

\* resolution base A (the source file's directory) and base B (the
\* repository root) for the recorded call, with the import as a relative path
BaseA == Join(SourceDir(call.source_file), ReplaceDots(call.import_name))
BaseB == Join(local_path, ReplaceDots(call.import_name))
BaseNo(b) == IF b = 1 THEN BaseA ELSE BaseB

\* the direct-file and package-index paths under a base
DirectPaths(base) == {base \o possible_extensions[e] : e \in 1..Len(possible_extensions)}
PackagePaths(base) == {Join(base, IndexFile(possible_extensions[e])) : e \in 1..2}
HitsUnder(base) == {p \in DirectPaths(base) \cup PackagePaths(base) : Exists(p)}

\* C1: whenever some candidate (base A + extension, or a package index under
\* base A) exists, the resolver returns one of the existing candidates under
\* base A, also when candidates under base B exist.
C1_BaseAWins ==
    call.made /\ HitsUnder(BaseA) # {}
        => \E p \in HitsUnder(BaseA) : call.result = NormPath(p)

\* C1 witness: an import with hits under both bases, the bases being
\* different places, resolved under base A
C1_Witness ==
    /\ call.made
    /\ HitsUnder(BaseA) # {} /\ HitsUnder(BaseB) # {}
    /\ {Target(p) : p \in HitsUnder(BaseA)} \cap {Target(p) : p \in HitsUnder(BaseB)} = {}
    /\ \E p \in HitsUnder(BaseA) : call.result = NormPath(p)

\* the recorded call returned a direct file hit / a package-index hit
ReturnedDirect ==
    \E b \in 1..2 : \E p \in DirectPaths(BaseNo(b)) :
        Exists(p) /\ call.result = NormPath(p)
ReturnedPackage(b, e) ==
    LET pkg == Join(BaseNo(b), IndexFile(possible_extensions[e]))
    IN call.made /\ ~ReturnedDirect /\ Exists(pkg) /\ call.result = NormPath(pkg)

\* C2 as stated: a package-index file is returned only if no direct file hit
\* exists, for any base and any known extension.
C2_DirectAlwaysWins ==
    \A b \in 1..2, e \in 1..2 :
        ReturnedPackage(b, e)
            => \A b2 \in 1..2 : \A p \in DirectPaths(BaseNo(b2)) : ~Exists(p)

\* C2 amended: a package-index file base/__init__.py (base/index.js) is
\* returned only if nothing was hit under an earlier base and, under its own
\* base, no direct file exists for '.py' (for '.py' or '.js'): a direct file
\* wins over a package index only when it comes earlier in the
\* base-then-extension iteration.
C2_DirectWinsWhenEarlier ==
    (\E b \in 1..2, e \in 1..2 : ReturnedPackage(b, e))
        => \E b \in 1..2, e \in 1..2 :
              /\ ReturnedPackage(b, e)
              /\ \A e2 \in 1..e : ~Exists(BaseNo(b) \o possible_extensions[e2])
              /\ \A e2 \in 1..(e - 1) :
                    ~Exists(Join(BaseNo(b), IndexFile(possible_extensions[e2])))
              /\ b = 2 => HitsUnder(BaseA) = {}

\* C2 witness: a package index is returned while a direct file exists under
\* the same base with a later extension, or under base B
C2_Witness ==
    \E b \in 1..2, e \in 1..2 :
        /\ ReturnedPackage(b, e)
        /\ \E b2 \in 1..2 : \E p \in DirectPaths(BaseNo(b2)) : Exists(p)

\* the path p names something below the repository root
InsideRepo(p) == IsUnder(Target(p), RepoRoot)

\* C3 as stated: every path the resolver returns is inside the repository
\* root directory.
C3_ResultInsideRepo ==
    call.made /\ call.result # None => InsideRepo(call.result)

---------------------------------------------------------------------------
(* The claims about the dependency map and the RepoTree                    *)

HasTag(tok, tag) == StartsWith(tok, <<tag, COLON>>)
\* a plain file reference: a token without a module, resource, data or var tag
IsPlain(tok) == \A tag \in {"module", "resource", "data", "var"} : ~HasTag(tok, tag)
\* dep.split(':', 2)[2] of a module token
ModulePathOf(tok) ==
    LET c == CHOOSE i \in 3..Len(tok) :
                 tok[i] = COLON /\ \A j \in 3..(i - 1) : tok[j] # COLON
    IN SubSeq(tok, c + 1, Len(tok))

\* C4 as stated: every plain file-reference token, and the path part of
\* every module token, is an absolute path string, whatever local_path is.
C4_TokensAreAbsolute ==
    \A k \in DOMAIN dependencies : \A n \in 1..Len(dependencies[k]) :
        LET tok == dependencies[k][n]
        IN /\ IsPlain(tok) => IsAbs(tok)
           /\ HasTag(tok, "module") => IsAbs(ModulePathOf(tok))

\* C5 as stated: every plain file-reference token names an existing regular
\* file, never a directory and never a path that does not exist.
C5_FileRefsAreRegularFiles ==
    \A k \in DOMAIN dependencies : \A n \in 1..Len(dependencies[k]) :
        IsPlain(dependencies[k][n]) => IsFile(dependencies[k][n])

\* the place of a token in the fixed order of the extraction
Rank(tok) == CASE HasTag(tok, "module") -> 1
               [] HasTag(tok, "resource") -> 2
               [] HasTag(tok, "data") -> 3
               [] HasTag(tok, "var") -> 4
               [] OTHER -> 0

\* the files whose content the dependency pass read
ReadFiles == {f \in ScannedFiles : content[f].readable}

\* the raw imports of a file in discovery order: pattern by pattern, and for
\* each pattern match by match
RawImports(f) ==
    LET lang == GetLanguageFromExtension(NameOf(f))
    IN Concat([i \in 1..NumPatterns(lang) |-> FindAll(lang, i, content[f].items)])

\* C6: the dependency list of a file is in discovery order: first the plain
\* tokens, which are the resolved raw imports in pattern order and then match
\* order with duplicates kept, then the module tokens, then the resource
\* tokens, then the data tokens, then the var tokens.
C6_DiscoveryOrder ==
    analyzed = "True" =>
        \A f \in ReadFiles :
            LET toks == DepsGet(dependencies, RelOf(f))
            IN /\ \A i, j \in 1..Len(toks) : i < j => Rank(toks[i]) <= Rank(toks[j])
               /\ SelectSeq(toks, IsPlain) = ResolvedOf(RelOf(f), RawImports(f))

\* C6 witness: an analysed Terraform file with two plain tokens from
\* different patterns followed by tokens of two tagged kinds
C6_Witness ==
    /\ analyzed = "True"
    /\ \E f \in ReadFiles :
          LET toks == DepsGet(dependencies, RelOf(f))
              lang == GetLanguageFromExtension(NameOf(f))
          IN /\ Cardinality({Rank(toks[i]) : i \in 1..Len(toks)}) >= 3
             /\ \E i, j \in 1..NumPatterns(lang) :
                   /\ i # j
                   /\ ResolvedOf(RelOf(f), FindAll(lang, i, content[f].items)) # <<>>
                   /\ ResolvedOf(RelOf(f), FindAll(lang, j, content[f].items)) # <<>>

\* the tokens of one tag, in list order
Tagged(toks, tag) == SelectSeq(toks, LAMBDA t : HasTag(t, tag))

\* the module blocks of a file whose source attribute resolves
ResolvingModules(f) ==
    SelectSeq(BlocksOf("module", content[f].items),
              LAMBDA it : it.b # <<>> /\ ResolveAbsoluteImport(RelOf(f), it.b) # None)

\* C7: for every Terraform file the dependency pass reads, the list has one
\* resource token per resource block, one data token per data block and one
\* var token per var reference, whether or not anything resolves, and one
\* module token per module block whose source resolves and none for the
\* other module blocks.
C7_TerraformTokens ==
    analyzed = "True" =>
        \A f \in ReadFiles :
            GetLanguageFromExtension(NameOf(f)) = "terraform" =>
                LET toks == DepsGet(dependencies, RelOf(f))
                    items == content[f].items
                    res == BlocksOf("resource", items)
                    dat == BlocksOf("data", items)
                    refs == BlocksOf("var", items)
                    mods == ResolvingModules(f)
                IN /\ Tagged(toks, "resource") =
                        [n \in 1..Len(res) |->
                            <<"resource", COLON>> \o res[n].a \o <<COLON>> \o res[n].b]
                   /\ Tagged(toks, "data") =
                        [n \in 1..Len(dat) |->
                            <<"data", COLON>> \o dat[n].a \o <<COLON>> \o dat[n].b]
                   /\ Tagged(toks, "var") =
                        [n \in 1..Len(refs) |-> <<"var", COLON>> \o refs[n].a]
                   /\ Tagged(toks, "module") =
                        [n \in 1..Len(mods) |->
                            <<"module", COLON>> \o mods[n].a \o <<COLON>>
                                \o ResolveAbsoluteImport(RelOf(f), mods[n].b)]

\* C7 witness: an analysed Terraform file with a module block whose source
\* does not resolve, no module token, and a resource, data or var token
C7_Witness ==
    /\ analyzed = "True"
    /\ \E f \in ReadFiles :
          /\ GetLanguageFromExtension(NameOf(f)) = "terraform"
          /\ \E n \in 1..Len(content[f].items) :
                /\ content[f].items[n].k = "module"
                /\ content[f].items[n].b # <<>>
          /\ ResolvingModules(f) = <<>>
          /\ GenericTokens(RelOf(f), "terraform", content[f].items) = <<>>
          /\ DepsGet(dependencies, RelOf(f)) # <<>>

\* the file f is below a directory of the repository whose name is in
\* ignored_dirs or begins with a dot
UnderIgnoredDir(f) ==
    \E n \in (Len(RepoRoot) + 1)..(Len(f) - 1) : ~KeptDir(f[n])

\* the files of the repository that are below no such directory
VisibleFiles == {f \in files : IsUnder(f, RepoRoot) /\ ~UnderIgnoredDir(f)}

\* C8 as stated: a file below an ignored or dot-prefixed directory is no node
\* of the RepoTree, no key of the dependency map, and is not counted in the
\* file-type histogram.
C8_IgnoredContributeNothing ==
    analyzed = "True" =>
        /\ \A f \in files :
              IsUnder(f, RepoRoot) /\ UnderIgnoredDir(f) =>
                  /\ Split(RelOf(f)) \notin DOMAIN file_structure
                  /\ RelOf(f) \notin DOMAIN dependencies
        /\ out.kind # "none" =>
              \A e \in DOMAIN out.summary.file_types :
                  out.summary.file_types[e] =
                      Cardinality({f \in VisibleFiles : Lower(SplitExt(NameOf(f))) = e})

\* C9 as stated: the dependency pass and the structure pass visit the same
\* files: every key of the dependency map is a file node of the RepoTree and
\* every file of a recognised language in the RepoTree was scanned.
C9_SamePruning ==
    analyzed = "True" =>
        /\ SubstringWalkFiles = StructureFiles
        /\ \A k \in DOMAIN dependencies : Split(k) \in DOMAIN file_structure
        /\ \A f \in StructureFiles :
              GetLanguageFromExtension(NameOf(f)) # NoLanguage =>
                  DepsGet(dependencies, RelOf(f)) = FileTokens(f)

\* C10 as stated: no key of the dependency map is mapped to an empty list,
\* and a scanned file without tokens is absent from the map and is an empty
\* node of the RepoTree, without a 'dependencies' key.
C10_NoEmptyLists ==
    /\ \A k \in DOMAIN dependencies : dependencies[k] # <<>>
    /\ analyzed = "True" =>
          \A f \in ScannedFiles :
              FileTokens(f) = <<>> =>
                  /\ RelOf(f) \notin DOMAIN dependencies
                  /\ Split(RelOf(f)) \in DOMAIN file_structure
                  /\ file_structure[Split(RelOf(f))] = DictV
                  /\ ChildrenOf(file_structure, Split(RelOf(f))) = {}

---------------------------------------------------------------------------
(* The claims about repeated runs, failures, the summary and the report    *)

\* what analyze_repo() leaves in a new analyzer over the present tree
FreshDependencies == AnalyzeFiles(SeqOfSet(ScannedFiles), EmptyDict)
FreshStructure == BuildFiles(SeqOfSet(StructureFiles), FreshDependencies, EmptyDict)

\* C11: after a second or later analyze_repo() call over the unmodified tree
\* the dependency map and the RepoTree are what a single run over a new
\* analyzer leaves, nothing accumulated or duplicated, and a summary
\* produced after an earlier run is the summary the present state gives.
C11_RerunSameSummary ==
    (runs = 2 /\ analyzed = "True") =>
        /\ dependencies = FreshDependencies
        /\ file_structure = FreshStructure
        /\ (out.kind # "none" /\ out.summary.structure # EmptyDict)
               => out.summary = Summary

\* C11 witness: analyze_repo() has run twice over a tree with dependency
\* tokens, and a summary of the second run was produced
C11_Witness ==
    /\ runs = 2 /\ analyzed = "True"
    /\ dependencies # EmptyDict
    /\ \E q \in DOMAIN file_structure : file_structure[q].list # <<>>
    /\ out.kind = "json" /\ out.summary = Summary

\* C12: in the driver, when local_path is unset or names nothing that
\* exists, analyze_repo() returns False, the dependency map and the RepoTree
\* stay as the constructor left them, and neither the text report nor the
\* JSON summary is produced.
C12_FailureProducesNothing ==
    (runs >= 1 /\ (local_path = <<>> \/ ~Exists(local_path))) =>
        /\ analyzed = "False"
        /\ dependencies = EmptyDict
        /\ file_structure = EmptyDict
        /\ out = NoOutput

\* C12 witness: analyze_repo() has returned False for a path that is set and
\* does not exist
C12_Witness ==
    /\ runs = 1 /\ analyzed = "False"
    /\ local_path # <<>> /\ ~Exists(local_path)
    /\ out = NoOutput

\* the place of the scanned file f in the walk of the dependency pass
WalkIndex(f) ==
    LET walk == SeqOfSet(ScannedFiles)
    IN CHOOSE i \in 1..Len(walk) : walk[i] = f

\* the tokens the content of the readable file f gives
OwnTokens(f) ==
    LET language == GetLanguageFromExtension(NameOf(f))
    IN GenericTokens(RelOf(f), language, content[f].items)
       \o (IF language = "terraform" THEN TerraformTokens(RelOf(f), content[f].items)
           ELSE <<>>)

\* C13: analyze_repo() over an existing path returns True whatever files
\* cannot be read; a scanned file that cannot be read is no key of the
\* dependency map and, where the structure pass visits it, is an empty file
\* node of the RepoTree; every scanned file that can be read has the tokens
\* of its own content, wherever it comes in the walk.
C13_UnreadableIsLocal ==
    (runs >= 1 /\ local_path # <<>> /\ Exists(local_path)) =>
        /\ analyzed = "True"
        /\ \A f \in ScannedFiles :
              IF content[f].readable
              THEN DepsGet(dependencies, RelOf(f)) = OwnTokens(f)
              ELSE /\ RelOf(f) \notin DOMAIN dependencies
                   /\ f \in StructureFiles =>
                          /\ Split(RelOf(f)) \in DOMAIN file_structure
                          /\ file_structure[Split(RelOf(f))] = DictV
                          /\ ChildrenOf(file_structure, Split(RelOf(f))) = {}

\* C13 witness: an analysed tree with a file that cannot be read and, later
\* in the walk, a file with tokens
C13_Witness ==
    /\ analyzed = "True"
    /\ \E f, g \in ScannedFiles :
          /\ ~content[f].readable /\ f \in StructureFiles
          /\ content[g].readable /\ WalkIndex(f) < WalkIndex(g)
          /\ DepsGet(dependencies, RelOf(g)) # <<>>
          /\ Split(RelOf(f)) \in DOMAIN file_structure

\* the directories below the repository root that the structure pass visits
\* and that hold a file at some depth: the directory nodes of the RepoTree
TreeDirectories ==
    {d \in PrunedWalkDirs : d # RepoRoot /\ \E f \in StructureFiles : IsUnder(f, d)}

\* the nodes of the RepoTree: the key paths whose value is a dict
TreeNodes(t) == {q \in DOMAIN t : t[q].dict}

ExtensionWords == {"tf", "tfvars", "md", "py", "js"}

\* the name of f ends in a dot and the word w in any case, with something
\* before the dot
EndsIn(f, w) ==
    LET n == NameOf(f)
    IN Len(n) >= 3 /\ n[Len(n) - 1] = DOT /\ LowerTok(n[Len(n)]) = w

\* C15: the file-type histogram of a summary has one entry per lower-case
\* extension, holding the number of files of the histogram's walk whose name
\* ends in that extension in any case (recognised language or not), and no
\* entry for the empty extension.
C15_HistogramByLowerExtension ==
    (analyzed = "True" /\ out.kind # "none") =>
        LET h == out.summary.file_types
        IN /\ \A k \in DOMAIN h : k # <<>> /\ Lower(k) = k
           /\ DOMAIN h \subseteq {Ext(w) : w \in ExtensionWords}
           /\ \A w \in ExtensionWords :
                 LET n == Cardinality({f \in SubstringWalkFiles : EndsIn(f, w)})
                 IN IF n = 0 THEN Ext(w) \notin DOMAIN h
                    ELSE Ext(w) \in DOMAIN h /\ h[Ext(w)] = n

\* C15 witness: a summary of a tree with main.tf, up.TF and a file without an
\* extension, whose histogram has the one entry .tf with the count 2
C15_Witness ==
    /\ analyzed = "True" /\ out.kind = "json"
    /\ \E f \in SubstringWalkFiles : NameOf(f) = <<"up", DOT, "TF">>
    /\ \E f \in SubstringWalkFiles : SplitExt(NameOf(f)) = <<>>
    /\ DOMAIN out.summary.file_types = {Ext("tf")}
    /\ out.summary.file_types[Ext("tf")] = 2

\* the files of the analysed tree that are classified as terraform
TerraformFiles ==
    {f \in StructureFiles : GetLanguageFromExtension(NameOf(f)) = "terraform"}

\* C16 as stated: the text report has the Terraform section if and only if
\* the analysed tree has a file classified as terraform (.tf or .tfvars).
C16_TerraformSectionIffTerraformFile ==
    (analyzed = "True" /\ out.kind = "report") =>
        (out.terraform <=> TerraformFiles # {})

\* the RepoTree nodes that have a line of their own in the listing
ListedNodes(listing) ==
    {listing[i].node : i \in {j \in 1..Len(listing) : listing[j].kind # "..."}}

\* C17 as stated: the listing of the report has a line for every RepoTree
\* node at a nesting level of at most 6 below the root, and for no deeper one.
C17_ListingToDepthSix ==
    (analyzed = "True" /\ out.kind = "report") =>
        \A q \in TreeNodes(file_structure) :
            q \in ListedNodes(out.listing) <=> Len(q) <= ListingMaxDepth

\* C18 as stated: every RepoTree node is a directory for the counting pass
\* exactly if it is one for the listing and for the dependency collectors, and
\* the listing prints as "D" exactly the directories of the counting pass.
C18_SameClassification ==
    (analyzed = "True" /\ out.kind = "report") =>
        /\ \A q \in TreeNodes(file_structure) :
              /\ AnyDictChild(file_structure, q) <=> OtherDictChild(file_structure, q)
              /\ AnyDictChild(file_structure, q) <=>
                     (~HasDependenciesKey(file_structure, q)
                          /\ SomeDictChild(file_structure, q))
        /\ \A i \in 1..Len(out.listing) :
              out.listing[i].kind = "D" <=>
                  AnyDictChild(file_structure, out.listing[i].node)

=============================================================================
